---- MODULE Spec2Model ----
(***************************************************************************)
(* Model of twine's upload command (src/twine/commands/upload.py):        *)
(* skip_upload, check_status_code and the per-batch loop of upload().     *)
(*                                                                         *)
(* Python strings are modelled as sequences of one-character strings, so  *)
(* that str.startswith, str.endswith, the `in` substring test and         *)
(* os.path.basename are computed character by character.                  *)
(***************************************************************************)
EXTENDS Integers, Sequences, FiniteSets, TLC

(* ------------------------------ bounds -------------------------------- *)

\* longest list of distribution paths handed to upload()
MaxDists == 2

(* -------------------------- string helpers ---------------------------- *)

\* str.startswith(prefix) for one prefix
StartsWith(s, p) ==
    /\ Len(p) <= Len(s)
    /\ SubSeq(s, 1, Len(p)) = p

\* str.endswith(suffix)
EndsWith(s, p) ==
    /\ Len(p) <= Len(s)
    /\ SubSeq(s, Len(s) - Len(p) + 1, Len(s)) = p

\* the substring test `sub in s`
Contains(s, sub) ==
    \E k \in 0..(Len(s) - Len(sub)) : SubSeq(s, k + 1, k + Len(sub)) = sub

\* os.path.basename: everything after the last "/"
Basename(path) ==
    LET slashes == {k \in 1..Len(path) : path[k] = "/"}
        last == IF slashes = {} THEN 0
                ELSE CHOOSE k \in slashes : \A m \in slashes : m <= k
    IN SubSeq(path, last + 1, Len(path))

(* ------------------------- literals of the code ----------------------- *)

MSG_400_OLD_HEAD ==
    <<"A"," ","f","i","l","e"," ","n","a","m","e","d"," ","\"">>

MSG_400_OLD_TAIL ==
    <<"\""," ","a","l","r","e","a","d","y"," ","e","x","i","s","t","s"," ","f","o","r">>

MSG_400_WAREHOUSE ==
    <<"F","i","l","e"," ","a","l","r","e","a","d","y"," ","e","x","i","s","t","s">>

MSG_400_NEXUS ==
    <<"R","e","p","o","s","i","t","o","r","y"," ","d","o","e","s"," ","n","o","t"," ","a","l","l","o","w"," ","u","p","d","a","t","i","n","g"," ","a","s","s","e","t","s">>

msg_403 ==
    <<"N","o","t"," ","e","n","o","u","g","h"," ","p","e","r","m","i","s","s","i","o","n","s"," ","t","o"," ","o","v","e","r","w","r","i","t","e"," ","a","r","t","i","f","a","c","t">>

\* the tuple msg_400 of skip_upload, for a package named filename
msg_400(filename) ==
    { MSG_400_OLD_HEAD \o filename \o MSG_400_OLD_TAIL,
      MSG_400_WAREHOUSE,
      MSG_400_NEXUS }

ASC ==
    <<".","a","s","c">>

LEGACY_HOST ==
    <<"p","y","p","i",".","p","y","t","h","o","n",".","o","r","g">>

PYPI_HOST ==
    <<"p","y","p","i",".","o","r","g">>

(* ------------------------ values used as inputs ----------------------- *)

URL_LEGACY ==
    <<"h","t","t","p","s",":","/","/","p","y","p","i",".","p","y","t","h","o","n",".","o","r","g","/","p","y","p","i">>

URL_PYPI ==
    <<"h","t","t","p","s",":","/","/","u","p","l","o","a","d",".","p","y","p","i",".","o","r","g","/","l","e","g","a","c","y","/">>

URL_OTHER ==
    <<"h","t","t","p","s",":","/","/","e","x","a","m","p","l","e",".","c","o","m","/">>

LOCATION_MIRROR ==
    <<"h","t","t","p","s",":","/","/","m","i","r","r","o","r",".","e","x","a","m","p","l","e","/","x">>

LOCATION_OTHER ==
    <<"h","t","t","p","s",":","/","/","e","v","i","l",".","e","x","a","m","p","l","e","/">>

TAIL_TEXT ==
    <<"."," ","S","e","e"," ","h","e","l","p">>

REASON_OK ==
    <<"O","K">>

REASON_BAD ==
    <<"B","a","d"," ","R","e","q","u","e","s","t">>

EMPTY ==
    <<>>

\* the repository URL of the settings, already validated
REPOSITORY_URL ==
    URL_PYPI

PATH_P ==
    <<"p">>

PATH_Q ==
    <<"q">>

PATH_P_ASC ==
    <<"p",".","a","s","c">>

PATH_D_P_ASC ==
    <<"d","/","p",".","a","s","c">>

\* the paths a batch may be given
Paths ==
    {PATH_P, PATH_Q, PATH_P_ASC, PATH_D_P_ASC}

\* all lists of at most n paths
RECURSIVE PathLists(_)
PathLists(n) ==
    IF n = 0 THEN {<<>>}
    ELSE LET shorter == PathLists(n - 1)
         IN shorter \cup {Append(l, p) : l \in {s \in shorter : Len(s) = n - 1}, p \in Paths}

(* ------------------------------ packages ------------------------------ *)

\* PackageFile.from_filename: the fields of a package the command reads
PackageFile(filename) ==
    [ filename             |-> filename,
      basefilename         |-> Basename(filename),
      signed_basefilename  |-> Basename(filename) \o ASC,
      gpg_signature        |-> {} ]

\* value of the local `package` before the loop assigns it
NoPackage ==
    [ filename |-> EMPTY, basefilename |-> EMPTY,
      signed_basefilename |-> EMPTY, gpg_signature |-> {} ]

\* PackageFile.add_gpg_signature(signature_filepath, signature_filename)
add_gpg_signature(pkg, signature_filepath, signature_filename) ==
    [pkg EXCEPT !.gpg_signature =
        {[name |-> signature_filename, path |-> signature_filepath, by |-> "file"]}]

\* PackageFile.sign(sign_with, identity): gpg writes <filename>.asc, which is attached
sign_package(pkg) ==
    [pkg EXCEPT !.gpg_signature =
        {[name |-> pkg.signed_basefilename, path |-> pkg.filename \o ASC, by |-> "gpg"]}]

(* ------------------------------ responses ----------------------------- *)

Statuses ==
    {200, 400, 403, 405, 409, 410, 500}

\* a response of repository.upload; loc is the location header, EMPTY when there
\* is none (requests: is_redirect needs a location header)
Response(s, r, t, u, loc) ==
    [ status_code |-> s, reason |-> r, text |-> t, url |-> u,
      is_redirect |-> (loc # EMPTY),
      headers |-> IF loc # EMPTY THEN {<<"location", loc>>} ELSE {} ]

\* the answers of the index during a batch
BatchResponses ==
    { Response(s, r, t, u, loc) :
        s \in Statuses, r \in {REASON_OK, MSG_400_WAREHOUSE},
        t \in {EMPTY, msg_403}, u \in {URL_LEGACY, URL_PYPI, URL_OTHER},
        loc \in {EMPTY, LOCATION_MIRROR, LOCATION_OTHER} }

\* value of the local `resp` before the first request
NoResponse ==
    [ status_code |-> 0, reason |-> EMPTY, text |-> EMPTY, url |-> EMPTY,
      is_redirect |-> FALSE, headers |-> {} ]

\* resp.headers[key]
Header(response, key) ==
    (CHOOSE h \in response.headers : h[1] = key)[2]

(* ----------------------------- skip_upload ---------------------------- *)

\* the reason compared for equality with the members of the tuple
EqualsAny(s, prefixes) ==
    s \in prefixes

\* response.reason.startswith(msg_400): true when any member of the tuple is a prefix
StartsWithAny(s, prefixes) ==
    \E p \in prefixes : StartsWith(s, p)

\* skip_upload asking for a known reason on a 409 as well
skip_upload_409Reason(response, skip_flag, pkg) ==
    skip_flag /\ ( \/ ( /\ response.status_code \in {409, 400}
                        /\ StartsWithAny(response.reason, msg_400(pkg.basefilename)) )
                   \/ ( /\ response.status_code = 403
                        /\ Contains(response.text, msg_403) ) )

\* skip_upload looking for msg_403 in the reason instead of the body
skip_upload_403Reason(response, skip_flag, pkg) ==
    skip_flag /\ ( \/ response.status_code = 409
                   \/ ( /\ response.status_code = 400
                        /\ StartsWithAny(response.reason, msg_400(pkg.basefilename)) )
                   \/ ( /\ response.status_code = 403
                        /\ Contains(response.reason, msg_403) ) )

\* skip_upload with the 403 test lost from the last alternative
skip_upload_AnyStatusBody(response, skip_flag, pkg) ==
    skip_flag /\ ( \/ response.status_code = 409
                   \/ ( /\ response.status_code = 400
                        /\ StartsWithAny(response.reason, msg_400(pkg.basefilename)) )
                   \/ Contains(response.text, msg_403) )

\* skip_upload without the skip_existing test
skip_upload_IgnoresFlag(response, skip_flag, pkg) ==
    \/ response.status_code = 409
    \/ ( /\ response.status_code = 400
         /\ StartsWithAny(response.reason, msg_400(pkg.basefilename)) )
    \/ ( /\ response.status_code = 403
         /\ Contains(response.text, msg_403) )

skip_upload(response, skip_flag, pkg) ==
    skip_flag /\ ( \/ response.status_code = 409
                   \/ ( /\ response.status_code = 400
                        /\ StartsWithAny(response.reason, msg_400(pkg.basefilename)) )
                   \/ ( /\ response.status_code = 403
                        /\ Contains(response.text, msg_403) ) )

(* -------------------------- check_status_code ------------------------- *)

\* requests' Response.raise_for_status raises HTTPError for 4xx and 5xx
raise_for_status(response) ==
    400 <= response.status_code /\ response.status_code < 600

NoError ==
    [type |-> "none", status |-> 0, url |-> EMPTY, location |-> EMPTY]

\* check_status_code returning after a 410 or 405 from another URL
check_status_code_NoFallThrough(response, verbose_flag) ==
    IF response.status_code = 410
    THEN [ exc |-> IF Contains(response.url, LEGACY_HOST)
                   THEN [NoError EXCEPT !.type = "UploadToDeprecatedPyPIDetected"]
                   ELSE NoError,
           out |-> <<>> ]
    ELSE IF response.status_code = 405
    THEN [ exc |-> IF Contains(response.url, PYPI_HOST)
                   THEN [NoError EXCEPT !.type = "InvalidPyPIUploadURL"]
                   ELSE NoError,
           out |-> <<>> ]
    ELSE IF raise_for_status(response)
    THEN [ exc |-> [NoError EXCEPT !.type = "HTTPError", !.status = response.status_code],
           out |-> IF response.text # EMPTY
                   THEN IF verbose_flag
                        THEN << [line |-> "Content received from server", arg |-> response.text] >>
                        ELSE << [line |-> "NOTE: Try --verbose", arg |-> EMPTY] >>
                   ELSE <<>> ]
    ELSE [ exc |-> NoError, out |-> <<>> ]

\* check_status_code printing the hint without looking at the body
check_status_code_HintAlways(response, verbose_flag) ==
    IF response.status_code = 410 /\ Contains(response.url, LEGACY_HOST)
    THEN [ exc |-> [NoError EXCEPT !.type = "UploadToDeprecatedPyPIDetected"],
           out |-> <<>> ]
    ELSE IF response.status_code = 405 /\ Contains(response.url, PYPI_HOST)
    THEN [ exc |-> [NoError EXCEPT !.type = "InvalidPyPIUploadURL"],
           out |-> <<>> ]
    ELSE IF raise_for_status(response)
    THEN [ exc |-> [NoError EXCEPT !.type = "HTTPError", !.status = response.status_code],
           out |-> IF verbose_flag
                   THEN IF response.text # EMPTY
                        THEN << [line |-> "Content received from server", arg |-> response.text] >>
                        ELSE <<>>
                   ELSE << [line |-> "NOTE: Try --verbose", arg |-> EMPTY] >> ]
    ELSE [ exc |-> NoError, out |-> <<>> ]

\* what check_status_code raises (type "none": it returns) and what it prints
check_status_code(response, verbose_flag) ==
    IF response.status_code = 410 /\ Contains(response.url, LEGACY_HOST)
    THEN [ exc |-> [NoError EXCEPT !.type = "UploadToDeprecatedPyPIDetected"],
           out |-> <<>> ]
    ELSE IF response.status_code = 405 /\ Contains(response.url, PYPI_HOST)
    THEN [ exc |-> [NoError EXCEPT !.type = "InvalidPyPIUploadURL"],
           out |-> <<>> ]
    ELSE IF raise_for_status(response)
    THEN [ exc |-> [NoError EXCEPT !.type = "HTTPError", !.status = response.status_code],
           out |-> IF response.text # EMPTY
                   THEN IF verbose_flag
                        THEN << [line |-> "Content received from server", arg |-> response.text] >>
                        ELSE << [line |-> "NOTE: Try --verbose", arg |-> EMPTY] >>
                   ELSE <<>> ]
    ELSE [ exc |-> NoError, out |-> <<>> ]

(* ------------------------- partition of the paths --------------------- *)

\* SignatureMap keeping the first path of a basename
SignatureMap_FirstWins(ds) ==
    LET sigs == {k \in 1..Len(ds) : EndsWith(ds[k], ASC)}
        keys == {Basename(ds[k]) : k \in sigs}
        first(b) == CHOOSE k \in sigs :
                      /\ Basename(ds[k]) = b
                      /\ \A m \in sigs : Basename(ds[m]) = b => k <= m
    IN [b \in keys |-> ds[first(b)]]

\* signatures = {os.path.basename(d): d for d in dists if d.endswith(".asc")}
\* (a later path with the same basename replaces an earlier one)
SignatureMap(ds) ==
    LET sigs == {k \in 1..Len(ds) : EndsWith(ds[k], ASC)}
        keys == {Basename(ds[k]) : k \in sigs}
        last(b) == CHOOSE k \in sigs :
                      /\ Basename(ds[k]) = b
                      /\ \A m \in sigs : Basename(ds[m]) = b => m <= k
    IN [b \in keys |-> ds[last(b)]]

NotSignature(d) ==
    ~EndsWith(d, ASC)

\* Uploads with the order of the paths reversed
Uploads_Reversed(ds) ==
    LET kept == SelectSeq(ds, NotSignature)
    IN [k \in 1..Len(kept) |-> kept[Len(kept) + 1 - k]]

\* Uploads without the ".asc" filter
Uploads_All(ds) ==
    ds

\* uploads = [i for i in dists if not i.endswith(".asc")]
Uploads(ds) ==
    SelectSeq(ds, NotSignature)

(* -------------------------------- state ------------------------------- *)

VARIABLES
    dists,              \* the paths returned by _find_dists
    skip_existing,      \* upload_settings.skip_existing
    sign,               \* upload_settings.sign
    verbose,            \* upload_settings.verbose
    signatures,         \* local of upload()
    uploads,            \* local of upload()
    created,            \* upload_settings.create_repository() has returned
    closed,             \* number of repository.close() calls
    i,                  \* position of the for loop in uploads
    package,            \* local of upload() / argument of skip_upload
    resp,               \* local of upload() / argument of skip_upload
    skip_ret,           \* value returned by the last skip_upload call
    uploaded_packages,  \* local of upload()
    error,              \* the exception that left upload(), if any
    stdout,             \* the lines printed
    events,             \* history: calls on the repository client and the package
    attempts,           \* history: what happened to each package of uploads
    pc                  \* position in the code

vars ==
    << dists, skip_existing, sign, verbose, signatures, uploads, created, closed,
       i, package, resp, skip_ret, uploaded_packages, error, stdout, events,
       attempts, pc >>

settings ==
    << dists, skip_existing, sign, verbose >>

NoAttempt ==
    [ pre |-> "notasked", sent |-> FALSE, redirect |-> FALSE, skip |-> FALSE,
      rejected |-> FALSE, resolved |-> "pending" ]

Event(op, idx, file) ==
    [op |-> op, idx |-> idx, file |-> file, count |-> 0]

SkipLine(pkg) ==
    [line |-> "Skipping", arg |-> pkg.basefilename]

(* ------------------------------- upload() ----------------------------- *)

Init ==
    /\ dists \in PathLists(MaxDists)
    /\ skip_existing \in BOOLEAN
    /\ sign \in BOOLEAN
    /\ verbose \in BOOLEAN
    /\ signatures = <<>>
    /\ uploads = <<>>
    /\ created = FALSE
    /\ closed = 0
    /\ i = 1
    /\ package = NoPackage
    /\ resp = NoResponse
    /\ skip_ret = FALSE
    /\ uploaded_packages = <<>>
    /\ error = NoError
    /\ stdout = <<>>
    /\ events = <<>>
    /\ attempts = <<>>
    /\ pc = "start"

\* lines 88-99: partition the paths, announce the repository, create the client
Partition ==
    /\ pc = "start"
    /\ signatures' = SignatureMap(dists)
    /\ uploads' = Uploads(dists)
    /\ stdout' = Append(stdout, [line |-> "Uploading distributions to", arg |-> REPOSITORY_URL])
    /\ created' = TRUE
    /\ uploaded_packages' = <<>>
    /\ pc' = "for"
    /\ UNCHANGED << settings, closed, i, package, resp, skip_ret, error, events, attempts >>

\* lines 101-106: next filename of uploads, or leave the loop
LoopHead ==
    /\ pc = "for"
    /\ IF i <= Len(uploads)
       THEN /\ package' = PackageFile(uploads[i])
            /\ attempts' = Append(attempts, NoAttempt)
            /\ pc' = "precheck"
       ELSE /\ pc' = "report"
            /\ UNCHANGED << package, attempts >>
    /\ UNCHANGED << settings, signatures, uploads, created, closed, i, resp, skip_ret,
                    uploaded_packages, error, stdout, events >>

\* PreCheck without the `continue` of line 114
PreCheck_NoContinue ==
    /\ pc = "precheck"
    /\ IF skip_existing
       THEN \E known \in BOOLEAN :
              /\ events' = Append(events, Event("package_is_uploaded", i, package.filename))
              /\ IF known
                 THEN /\ stdout' = Append(stdout, SkipLine(package))
                      /\ attempts' = [attempts EXCEPT ![i].pre = "yes"]
                 ELSE /\ attempts' = [attempts EXCEPT ![i].pre = "no"]
                      /\ UNCHANGED stdout
       ELSE UNCHANGED << events, stdout, attempts >>
    /\ pc' = "sign"
    /\ UNCHANGED << settings, signatures, uploads, created, closed, i, package, resp, skip_ret,
                    uploaded_packages, error >>

\* the pre-check made after the signature was resolved
PreCheck_AfterSignature ==
    /\ pc = "precheck"
    /\ LET signed_name == package.signed_basefilename
           has_file == signed_name \in DOMAIN signatures
           signed == IF has_file
                     THEN add_gpg_signature(package, signatures[signed_name], signed_name)
                     ELSE IF sign THEN sign_package(package) ELSE package
           done == IF has_file
                   THEN Append(events, Event("add_gpg_signature", i, package.filename))
                   ELSE IF sign THEN Append(events, Event("sign", i, package.filename))
                   ELSE events
       IN /\ package' = signed
          /\ IF skip_existing
             THEN \E known \in BOOLEAN :
                    /\ events' = Append(done, Event("package_is_uploaded", i, package.filename))
                    /\ IF known
                       THEN /\ stdout' = Append(stdout, SkipLine(package))
                            /\ attempts' = [attempts EXCEPT ![i].pre = "yes",
                                                            ![i].resolved = "skip"]
                            /\ i' = i + 1
                            /\ pc' = "for"
                       ELSE /\ attempts' = [attempts EXCEPT ![i].pre = "no"]
                            /\ pc' = "send"
                            /\ UNCHANGED << stdout, i >>
             ELSE /\ events' = done
                  /\ pc' = "send"
                  /\ UNCHANGED << stdout, attempts, i >>
    /\ UNCHANGED << settings, signatures, uploads, created, closed, resp, skip_ret,
                    uploaded_packages, error >>

\* lines 111-114: the skip_existing pre-check
PreCheck ==
    /\ pc = "precheck"
    /\ IF skip_existing
       THEN \E known \in BOOLEAN :
              /\ events' = Append(events, Event("package_is_uploaded", i, package.filename))
              /\ IF known
                 THEN /\ stdout' = Append(stdout, SkipLine(package))
                      /\ attempts' = [attempts EXCEPT ![i].pre = "yes", ![i].resolved = "skip"]
                      /\ i' = i + 1
                      /\ pc' = "for"
                 ELSE /\ attempts' = [attempts EXCEPT ![i].pre = "no"]
                      /\ pc' = "sign"
                      /\ UNCHANGED << stdout, i >>
       ELSE /\ pc' = "sign"
            /\ UNCHANGED << events, stdout, attempts, i >>
    /\ UNCHANGED << settings, signatures, uploads, created, closed, package, resp, skip_ret,
                    uploaded_packages, error >>

\* ResolveSignature with the sign option tested first
ResolveSignature_SignFirst ==
    /\ pc = "sign"
    /\ LET signed_name == package.signed_basefilename
       IN IF sign
          THEN /\ package' = sign_package(package)
               /\ events' = Append(events, Event("sign", i, package.filename))
          ELSE IF signed_name \in DOMAIN signatures
          THEN /\ package' = add_gpg_signature(package, signatures[signed_name], signed_name)
               /\ events' = Append(events, Event("add_gpg_signature", i, package.filename))
          ELSE UNCHANGED << package, events >>
    /\ pc' = "send"
    /\ UNCHANGED << settings, signatures, uploads, created, closed, i, resp, skip_ret,
                    uploaded_packages, error, stdout, attempts >>

\* lines 116-120: attach a pre-supplied signature, or sign
ResolveSignature ==
    /\ pc = "sign"
    /\ LET signed_name == package.signed_basefilename
       IN IF signed_name \in DOMAIN signatures
          THEN /\ package' = add_gpg_signature(package, signatures[signed_name], signed_name)
               /\ events' = Append(events, Event("add_gpg_signature", i, package.filename))
          ELSE IF sign
          THEN /\ package' = sign_package(package)
               /\ events' = Append(events, Event("sign", i, package.filename))
          ELSE UNCHANGED << package, events >>
    /\ pc' = "send"
    /\ UNCHANGED << settings, signatures, uploads, created, closed, i, resp, skip_ret,
                    uploaded_packages, error, stdout, attempts >>

\* line 122: resp = repository.upload(package)
Send ==
    /\ pc = "send"
    /\ \E r \in BatchResponses :
         /\ resp' = r
         /\ attempts' = [attempts EXCEPT
                           ![i].sent = TRUE,
                           ![i].redirect = r.is_redirect,
                           ![i].skip = skip_upload(r, skip_existing, package),
                           ![i].rejected = (check_status_code(r, verbose).exc # NoError)]
    /\ events' = Append(events, Event("upload", i, package.filename))
    /\ pc' = "redirect"
    /\ UNCHANGED << settings, signatures, uploads, created, closed, i, package, skip_ret,
                    uploaded_packages, error, stdout >>

\* RedirectGuard placed after the skip_upload test
RedirectGuard_AfterSkip ==
    /\ pc = "redirect"
    /\ IF resp.is_redirect /\ ~skip_upload(resp, skip_existing, package)
       THEN /\ error' = [NoError EXCEPT !.type = "RedirectDetected",
                                        !.url = REPOSITORY_URL,
                                        !.location = Header(resp, "location")]
            /\ attempts' = [attempts EXCEPT ![i].resolved = "abort"]
            /\ pc' = "raised"
       ELSE /\ pc' = "skip"
            /\ UNCHANGED << error, attempts >>
    /\ UNCHANGED << settings, signatures, uploads, created, closed, i, package, resp,
                    skip_ret, uploaded_packages, stdout, events >>

\* RedirectGuard that sends the package again on a redirect
RedirectGuard_Resends ==
    /\ pc = "redirect"
    /\ IF resp.is_redirect
       THEN pc' = "send"
       ELSE pc' = "skip"
    /\ UNCHANGED << settings, signatures, uploads, created, closed, i, package, resp,
                    skip_ret, uploaded_packages, stdout, events, error, attempts >>

\* lines 128-132: a redirect aborts the batch
RedirectGuard ==
    /\ pc = "redirect"
    /\ IF resp.is_redirect
       THEN /\ error' = [NoError EXCEPT !.type = "RedirectDetected",
                                        !.url = REPOSITORY_URL,
                                        !.location = Header(resp, "location")]
            /\ attempts' = [attempts EXCEPT ![i].resolved = "abort"]
            /\ pc' = "raised"
       ELSE /\ pc' = "skip"
            /\ UNCHANGED << error, attempts >>
    /\ UNCHANGED << settings, signatures, uploads, created, closed, i, package, resp,
                    skip_ret, uploaded_packages, stdout, events >>

\* SkipCheck that records the skipped package as uploaded
SkipCheck_Appends ==
    /\ pc = "skip"
    /\ skip_ret' = skip_upload(resp, skip_existing, package)
    /\ IF skip_ret'
       THEN /\ stdout' = Append(stdout, SkipLine(package))
            /\ uploaded_packages' = Append(uploaded_packages, package)
            /\ attempts' = [attempts EXCEPT ![i].resolved = "skip"]
            /\ i' = i + 1
            /\ pc' = "for"
       ELSE /\ pc' = "check"
            /\ UNCHANGED << stdout, attempts, i, uploaded_packages >>
    /\ UNCHANGED << settings, signatures, uploads, created, closed, package, resp,
                    error, events >>

\* SkipCheck that leaves the loop on a skip
SkipCheck_Breaks ==
    /\ pc = "skip"
    /\ skip_ret' = skip_upload(resp, skip_existing, package)
    /\ IF skip_ret'
       THEN /\ stdout' = Append(stdout, SkipLine(package))
            /\ attempts' = [attempts EXCEPT ![i].resolved = "skip"]
            /\ i' = i + 1
            /\ pc' = "report"
       ELSE /\ pc' = "check"
            /\ UNCHANGED << stdout, attempts, i >>
    /\ UNCHANGED << settings, signatures, uploads, created, closed, package, resp,
                    uploaded_packages, error, events >>

\* lines 134-136: the response says the file exists already
SkipCheck ==
    /\ pc = "skip"
    /\ skip_ret' = skip_upload(resp, skip_existing, package)
    /\ IF skip_ret'
       THEN /\ stdout' = Append(stdout, SkipLine(package))
            /\ attempts' = [attempts EXCEPT ![i].resolved = "skip"]
            /\ i' = i + 1
            /\ pc' = "for"
       ELSE /\ pc' = "check"
            /\ UNCHANGED << stdout, attempts, i >>
    /\ UNCHANGED << settings, signatures, uploads, created, closed, package, resp,
                    uploaded_packages, error, events >>

\* Validate that goes on to the report after a failure
Validate_ReportsAfterFailure ==
    /\ pc = "check"
    /\ LET r == check_status_code(resp, verbose)
       IN /\ stdout' = stdout \o r.out
          /\ IF r.exc # NoError
             THEN /\ error' = r.exc
                  /\ attempts' = [attempts EXCEPT ![i].resolved = "abort"]
                  /\ pc' = "report"
                  /\ UNCHANGED << uploaded_packages, i >>
             ELSE /\ uploaded_packages' = Append(uploaded_packages, package)
                  /\ attempts' = [attempts EXCEPT ![i].resolved = "success"]
                  /\ i' = i + 1
                  /\ pc' = "for"
                  /\ UNCHANGED error
    /\ UNCHANGED << settings, signatures, uploads, created, closed, package, resp,
                    skip_ret, events >>

\* Validate that sends the package again after a failure
Validate_Retries ==
    /\ pc = "check"
    /\ LET r == check_status_code(resp, verbose)
       IN /\ stdout' = stdout \o r.out
          /\ IF r.exc # NoError
             THEN /\ pc' = "send"
                  /\ UNCHANGED << uploaded_packages, i, attempts >>
             ELSE /\ uploaded_packages' = Append(uploaded_packages, package)
                  /\ attempts' = [attempts EXCEPT ![i].resolved = "success"]
                  /\ i' = i + 1
                  /\ pc' = "for"
    /\ UNCHANGED << settings, signatures, uploads, created, closed, package, resp,
                    skip_ret, events, error >>

\* lines 138-140: check_status_code, then record the package as uploaded
Validate ==
    /\ pc = "check"
    /\ LET r == check_status_code(resp, verbose)
       IN /\ stdout' = stdout \o r.out
          /\ IF r.exc # NoError
             THEN /\ error' = r.exc
                  /\ attempts' = [attempts EXCEPT ![i].resolved = "abort"]
                  /\ pc' = "raised"
                  /\ UNCHANGED << uploaded_packages, i >>
             ELSE /\ uploaded_packages' = Append(uploaded_packages, package)
                  /\ attempts' = [attempts EXCEPT ![i].resolved = "success"]
                  /\ i' = i + 1
                  /\ pc' = "for"
                  /\ UNCHANGED error
    /\ UNCHANGED << settings, signatures, uploads, created, closed, package, resp,
                    skip_ret, events >>

\* repository.release_urls(packages): no URL, or one per package
ReleaseUrls(pkgs) ==
    { <<>>, [k \in 1..Len(pkgs) |-> pkgs[k].basefilename] }

\* lines 142-146: report the release URLs
Report ==
    /\ pc = "report"
    /\ \E release_urls \in ReleaseUrls(uploaded_packages) :
         stdout' = IF release_urls # <<>>
                   THEN Append(stdout, [line |-> "View at:", arg |-> EMPTY])
                        \o [k \in 1..Len(release_urls) |->
                              [line |-> "url", arg |-> release_urls[k]]]
                   ELSE stdout
    /\ events' = Append(events, [Event("release_urls", 0, EMPTY) EXCEPT !.count = Len(uploaded_packages)])
    /\ pc' = "close"
    /\ UNCHANGED << settings, signatures, uploads, created, closed, i, package, resp,
                    skip_ret, uploaded_packages, error, attempts >>

\* line 150: repository.close()
Close ==
    /\ pc = "close"
    /\ closed' = closed + 1
    /\ events' = Append(events, Event("close", 0, EMPTY))
    /\ pc' = "done"
    /\ UNCHANGED << settings, signatures, uploads, created, i, package, resp, skip_ret,
                    uploaded_packages, error, stdout, attempts >>

Next ==
    \/ Partition
    \/ LoopHead
    \/ PreCheck
    \/ ResolveSignature
    \/ Send
    \/ RedirectGuard
    \/ SkipCheck
    \/ Validate
    \/ Report
    \/ Close

Spec ==
    Init /\ [][Next]_vars

TypeOK ==
    /\ pc \in {"start", "for", "precheck", "sign", "send", "redirect", "skip", "check",
               "report", "close", "done", "raised", "skip_call", "skip_return",
               "check_call", "check_return"}
    /\ closed \in 0..1
    /\ i \in 1..(MaxDists + 2)

(* --------------------- skip_upload called on its own ------------------ *)

\* reasons a 400 response may carry
SkipReasons ==
    { EMPTY, REASON_BAD,
      MSG_400_OLD_HEAD \o PATH_P \o MSG_400_OLD_TAIL,
      MSG_400_OLD_HEAD \o PATH_P \o MSG_400_OLD_TAIL \o TAIL_TEXT,
      MSG_400_OLD_HEAD \o PATH_Q \o MSG_400_OLD_TAIL,
      MSG_400_WAREHOUSE,
      MSG_400_WAREHOUSE \o TAIL_TEXT,
      TAIL_TEXT \o MSG_400_WAREHOUSE,
      SubSeq(MSG_400_WAREHOUSE, 1, Len(MSG_400_WAREHOUSE) - 1),
      MSG_400_NEXUS,
      MSG_400_NEXUS \o TAIL_TEXT,
      msg_403 }

\* bodies a response may carry
SkipTexts ==
    { EMPTY, msg_403,
      TAIL_TEXT \o msg_403 \o TAIL_TEXT,
      SubSeq(msg_403, 1, Len(msg_403) - 1),
      MSG_400_WAREHOUSE }

SkipResponses ==
    { Response(s, r, t, URL_PYPI, EMPTY) :
        s \in Statuses \cup {404}, r \in SkipReasons, t \in SkipTexts }

InitSkip ==
    /\ resp \in SkipResponses
    /\ skip_existing \in BOOLEAN
    /\ package \in {PackageFile(PATH_P), PackageFile(PATH_Q)}
    /\ dists = <<>>
    /\ sign = FALSE
    /\ verbose = FALSE
    /\ signatures = <<>>
    /\ uploads = <<>>
    /\ created = FALSE
    /\ closed = 0
    /\ i = 1
    /\ skip_ret = FALSE
    /\ uploaded_packages = <<>>
    /\ error = NoError
    /\ stdout = <<>>
    /\ events = <<>>
    /\ attempts = <<>>
    /\ pc = "skip_call"

\* lines 26-50: one call of skip_upload(response, skip_existing, package)
SkipUploadCall ==
    /\ pc = "skip_call"
    /\ skip_ret' = skip_upload(resp, skip_existing, package)
    /\ pc' = "skip_return"
    /\ UNCHANGED << settings, signatures, uploads, created, closed, i, package, resp,
                    uploaded_packages, error, stdout, events, attempts >>

NextSkip ==
    SkipUploadCall

SpecSkip ==
    InitSkip /\ [][NextSkip]_vars

(* ------------------ check_status_code called on its own --------------- *)

URL_LEGACY_TEST ==
    <<"h","t","t","p","s",":","/","/","t","e","s","t","p","y","p","i",".","p","y","t","h","o","n",".","o","r","g","/","p","y","p","i">>

URL_PYPI_TEST ==
    <<"h","t","t","p","s",":","/","/","t","e","s","t",".","p","y","p","i",".","o","r","g","/","l","e","g","a","c","y","/">>

URL_PATH_LEGACY ==
    <<"h","t","t","p","s",":","/","/","e","x","a","m","p","l","e",".","c","o","m","/","p","y","p","i",".","p","y","t","h","o","n",".","o","r","g","/">>

URL_PATH_PYPI ==
    <<"h","t","t","p","s",":","/","/","e","x","a","m","p","l","e",".","c","o","m","/","p","y","p","i",".","o","r","g","/">>

BODY_TEXT ==
    <<"e","r","r","o","r">>

\* status codes around the limits of raise_for_status and of the two special cases
CheckStatuses ==
    {200, 204, 304, 399, 400, 404, 405, 409, 410, 499, 500, 599, 600}

CheckUrls ==
    { URL_LEGACY, URL_LEGACY_TEST, URL_PYPI, URL_PYPI_TEST, URL_OTHER,
      URL_PATH_LEGACY, URL_PATH_PYPI }

CheckResponses ==
    { Response(s, REASON_BAD, t, u, EMPTY) :
        s \in CheckStatuses, t \in {EMPTY, BODY_TEXT, msg_403}, u \in CheckUrls }

InitCheck ==
    /\ resp \in CheckResponses
    /\ verbose \in BOOLEAN
    /\ skip_existing = FALSE
    /\ package = NoPackage
    /\ dists = <<>>
    /\ sign = FALSE
    /\ signatures = <<>>
    /\ uploads = <<>>
    /\ created = FALSE
    /\ closed = 0
    /\ i = 1
    /\ skip_ret = FALSE
    /\ uploaded_packages = <<>>
    /\ error = NoError
    /\ stdout = <<>>
    /\ events = <<>>
    /\ attempts = <<>>
    /\ pc = "check_call"

\* lines 53-84: one call of check_status_code(response, verbose)
CheckStatusCodeCall ==
    /\ pc = "check_call"
    /\ LET r == check_status_code(resp, verbose)
       IN /\ stdout' = stdout \o r.out
          /\ error' = r.exc
    /\ pc' = "check_return"
    /\ UNCHANGED << settings, signatures, uploads, created, closed, i, package, resp,
                    skip_ret, uploaded_packages, events, attempts >>

NextCheck ==
    CheckStatusCodeCall

SpecCheck ==
    InitCheck /\ [][NextCheck]_vars

(* ------------------------------ properties ---------------------------- *)

\* the indices of the attempts that satisfy P
Where(P(_)) ==
    {k \in 1..Len(attempts) : P(k)}

SkipLines ==
    {k \in 1..Len(stdout) : stdout[k].line = "Skipping"}

\* C1: in every terminated run of upload() in which the repository client was
\* created, whether it ended normally or with an exception, close() has been
\* called exactly once.
C1_ClosedOnEveryExit ==
    (pc \in {"done", "raised"} /\ created) => closed = 1

\* C2: a response with is_redirect aborts the batch with RedirectDetected carrying
\* the repository URL and the location header, whatever the status, the
\* skip_existing flag and the texts are; the package is neither skipped nor
\* recorded as uploaded, and no later call is made on the repository client.
C2_RedirectAborts ==
    \A k \in 1..Len(attempts) :
        attempts[k].redirect =>
            /\ k = Len(attempts)
            /\ k = i
            /\ events[Len(events)] = Event("upload", k, uploads[k])
            /\ pc \in {"redirect", "raised"}
            /\ resp.is_redirect
            /\ pc = "raised" =>
                 error = [ type |-> "RedirectDetected", status |-> 0,
                           url |-> REPOSITORY_URL,
                           location |-> Header(resp, "location") ]
            /\ Len(uploaded_packages) < k
            /\ Len(uploaded_packages) + Cardinality(SkipLines) = k - 1

\* C2 witness: a redirect with status 409 under skip_existing has aborted the batch
\* while another package was still waiting.
C2_Witness ==
    /\ pc = "raised"
    /\ error.type = "RedirectDetected"
    /\ error.location = LOCATION_OTHER
    /\ resp.status_code = 409
    /\ skip_existing
    /\ i < Len(uploads)

IsPreSkipped(k) ==
    attempts[k].pre = "yes"

\* C3: with skip_existing, a package that package_is_uploaded reports as known is
\* skipped (one skip line, next package) and never gets an upload request; the
\* query of a package always precedes its upload request.
C3_PreCheckSkips ==
    /\ \A k \in Where(IsPreSkipped) :
          /\ skip_existing
          /\ ~attempts[k].sent
          /\ \A e \in 1..Len(events) :
                events[e].idx = k => events[e].op = "package_is_uploaded"
          /\ k < i
          /\ Cardinality(SkipLines) >= Cardinality(Where(IsPreSkipped))
          /\ pc # "raised" \/ k < Len(attempts)
    /\ \A e \in 1..Len(events) :
          events[e].op = "upload" =>
             /\ skip_existing =>
                  \E q \in 1..(e - 1) :
                     events[q] = Event("package_is_uploaded", events[e].idx, events[e].file)
             /\ \A q \in (e + 1)..Len(events) :
                  ~(events[q].op = "package_is_uploaded" /\ events[q].idx = events[e].idx)

\* C3 witness: the first package was skipped by the pre-check and the second one
\* has been sent.
C3_Witness ==
    /\ Len(attempts) = 2
    /\ attempts[1].pre = "yes"
    /\ attempts[2].sent
    /\ stdout[2] = SkipLine(PackageFile(uploads[1]))

\* the old PyPI message for a package
OldPyPIMessage(pkg) ==
    MSG_400_OLD_HEAD \o pkg.basefilename \o MSG_400_OLD_TAIL

C5_Status409 ==
    (pc = "skip_return" /\ resp.status_code = 409) => (skip_ret <=> skip_existing)

\* C5 witness: a 409 with empty reason and body skipped.
C5_Witness ==
    /\ pc = "skip_return"
    /\ resp.status_code = 409
    /\ resp.reason = EMPTY
    /\ resp.text = EMPTY
    /\ skip_existing
    /\ skip_ret

\* C6: for status 403 skip_upload answers true exactly when skip_existing is set
\* and the body contains the message msg_403; the reason plays no part.
C6_Status403 ==
    (pc = "skip_return" /\ resp.status_code = 403) =>
        (skip_ret <=> (skip_existing /\ Contains(resp.text, msg_403)))

\* C6 witness: a 403 with the message inside a longer body, and a reason that
\* would match for a 400, skipped.
C6_Witness ==
    /\ pc = "skip_return"
    /\ resp.status_code = 403
    /\ resp.text = TAIL_TEXT \o msg_403 \o TAIL_TEXT
    /\ resp.reason = REASON_BAD
    /\ skip_existing
    /\ skip_ret

\* C7: for a status other than 409, 400 and 403 skip_upload answers false whatever
\* the flag, the reason and the body are; and without skip_existing it answers
\* false for every response.
C7_OtherStatusNeverSkips ==
    pc = "skip_return" =>
        /\ resp.status_code \notin {409, 400, 403} => ~skip_ret
        /\ ~skip_existing => ~skip_ret

\* C7 witness: a 500 carrying the 403 body and a known 400 reason, with
\* skip_existing set, was not skipped.
C7_Witness ==
    /\ pc = "skip_return"
    /\ resp.status_code = 500
    /\ resp.text = msg_403
    /\ resp.reason = MSG_400_WAREHOUSE
    /\ skip_existing
    /\ ~skip_ret

Range(f) ==
    {f[x] : x \in DOMAIN f}

\* C8 as stated: every path of the input ends with ".asc" exactly when it is
\* absent from uploads and is a value of the signature map.
C8_PartitionAsStated ==
    pc # "start" =>
        \A k \in 1..Len(dists) :
            EndsWith(dists[k], ASC) <=>
                (dists[k] \notin Range(uploads) /\ dists[k] \in Range(signatures))

\* k is a position of the last ".asc" path of the input with its basename
LastOfItsBasename(k) ==
    \A n \in (k + 1)..Len(dists) :
        EndsWith(dists[n], ASC) => Basename(dists[n]) # Basename(dists[k])

\* C8 amended: a path of the input ends with ".asc" exactly when it is absent from
\* uploads; it is a value of the signature map exactly when it ends with ".asc" and
\* is the last ".asc" path of the input with its basename.
C8_PartitionLastWins ==
    pc # "start" =>
        \A k \in 1..Len(dists) :
            /\ EndsWith(dists[k], ASC) <=> dists[k] \notin Range(uploads)
            /\ dists[k] \in Range(signatures) <=>
                 /\ EndsWith(dists[k], ASC)
                 /\ \E m \in 1..Len(dists) : dists[m] = dists[k] /\ LastOfItsBasename(m)

\* C8 witness: two signature files of different directories with one basename
\* were partitioned.
C8_Witness ==
    /\ pc # "start"
    /\ dists = <<PATH_P_ASC, PATH_D_P_ASC>>
    /\ uploads = <<>>
    /\ Range(signatures) = {PATH_D_P_ASC}

\* the response of attempt k was no redirect, no skip and passed check_status_code
Accepted(k) ==
    /\ attempts[k].sent
    /\ ~attempts[k].redirect
    /\ ~attempts[k].skip
    /\ ~attempts[k].rejected

\* the paths of the accepted attempts among the first n, in order
RECURSIVE AcceptedPaths(_)
AcceptedPaths(n) ==
    IF n = 0 THEN <<>>
    ELSE IF Accepted(n) THEN Append(AcceptedPaths(n - 1), uploads[n])
    ELSE AcceptedPaths(n - 1)

\* C9: in every state uploaded_packages holds, in processing order and once each,
\* exactly the packages whose upload response was no redirect, was not classified
\* as skip and passed check_status_code; packages skipped by the pre-check or by
\* the response, and the package of a fatal attempt, are not in it.
C9_AccumulatorExact ==
    /\ i - 1 <= Len(attempts)
    /\ [k \in 1..Len(uploaded_packages) |-> uploaded_packages[k].filename]
          = AcceptedPaths(i - 1)
    /\ \A k \in 1..Len(uploaded_packages) :
          uploaded_packages[k].basefilename = Basename(uploaded_packages[k].filename)
    /\ pc = "raised" => ~Accepted(i)
    /\ \A k \in 1..Len(attempts) : attempts[k].pre = "yes" => ~Accepted(k)

\* C9 witness: of two packages the first was skipped on its response and the
\* second accepted; the batch is done.
C9_Witness ==
    /\ pc = "done"
    /\ Len(attempts) = 2
    /\ attempts[1].sent /\ attempts[1].skip
    /\ Len(uploaded_packages) = 1
    /\ uploaded_packages[1].filename = uploads[2]

\* the paths of the input that do not end with ".asc", in input order
RECURSIVE NonAsc(_)
NonAsc(ds) ==
    IF ds = <<>> THEN <<>>
    ELSE IF EndsWith(Head(ds), ASC) THEN NonAsc(Tail(ds))
    ELSE <<Head(ds)>> \o NonAsc(Tail(ds))

IsClientCall(e) ==
    e.op \in {"package_is_uploaded", "upload"}

\* the package_is_uploaded and upload calls made so far, in order
Calls ==
    SelectSeq(events, IsClientCall)

\* C10 (state part): the calls go through the non-".asc" paths of the input in
\* input order, starting with the first and never skipping or going back; the
\* packages before the one called have all resolved as skip or success.
C10_CallsInOrder ==
    /\ Calls # <<>> => Calls[1].idx = 1
    /\ \A c \in 1..Len(Calls) :
          /\ Calls[c].idx \in 1..Len(NonAsc(dists))
          /\ Calls[c].file = NonAsc(dists)[Calls[c].idx]
          /\ \A m \in 1..(Calls[c].idx - 1) :
                attempts[m].resolved \in {"skip", "success"}
    /\ \A c \in 1..(Len(Calls) - 1) :
          \/ Calls[c + 1].idx = Calls[c].idx + 1
          \/ /\ Calls[c + 1].idx = Calls[c].idx
             /\ Calls[c].op = "package_is_uploaded"
             /\ Calls[c + 1].op = "upload"

\* C10 (step part): at the moment a call is made, every earlier package has
\* resolved, and a batch that raised makes no call.
C10_CallAfterResolved ==
    (Len(Calls') > Len(Calls)) =>
        /\ pc # "raised"
        /\ \A m \in 1..(Calls'[Len(Calls')].idx - 1) :
              attempts[m].resolved \in {"skip", "success"}

\* C10: packages are attempted in exactly the order of the non-".asc" paths of the
\* input, and no call for a package is made before the attempt of the package
\* before it has resolved.
C10_OrderPreserved ==
    [](C10_CallsInOrder) /\ [][C10_CallAfterResolved]_vars

\* C10 witness: two different packages were both queried and uploaded.
C10_Witness ==
    /\ dists = <<PATH_Q, PATH_P>>
    /\ Len(Calls) = 4
    /\ Calls[4] = Event("upload", 2, PATH_P)

\* the host part of a URL: what lies between "://" and the next "/"
Host(u) ==
    LET seps == {k \in 1..(Len(u) - 2) : SubSeq(u, k, k + 2) = <<":", "/", "/">>}
        a == IF seps = {} THEN 1
             ELSE (CHOOSE k \in seps : \A m \in seps : k <= m) + 3
        slashes == {k \in a..Len(u) : u[k] = "/"}
        b == IF slashes = {} THEN Len(u)
             ELSE (CHOOSE k \in slashes : \A m \in slashes : k <= m) - 1
    IN SubSeq(u, a, b)

\* C14 as stated: the 410 rule and the 405 rule look at the HOST of the request
\* URL; a 410 or 405 whose host is another one falls through to the generic
\* 4xx/5xx failure.
C14_RulesByHost ==
    pc = "check_return" =>
        error.type =
            IF resp.status_code = 410 /\ Contains(Host(resp.url), LEGACY_HOST)
            THEN "UploadToDeprecatedPyPIDetected"
            ELSE IF resp.status_code = 405 /\ Contains(Host(resp.url), PYPI_HOST)
            THEN "InvalidPyPIUploadURL"
            ELSE IF resp.status_code >= 400 /\ resp.status_code <= 599
            THEN "HTTPError"
            ELSE "none"

\* C14 amended: the 410 rule and the 405 rule look for the host string anywhere
\* in the request URL, in this order; a 410 or 405 whose URL does not contain the
\* respective string, and every other 4xx/5xx status, is the generic failure;
\* anything else is a success.
C14_RulesByUrlText ==
    pc = "check_return" =>
        /\ error.type =
              IF resp.status_code = 410 /\ Contains(resp.url, LEGACY_HOST)
              THEN "UploadToDeprecatedPyPIDetected"
              ELSE IF resp.status_code = 405 /\ Contains(resp.url, PYPI_HOST)
              THEN "InvalidPyPIUploadURL"
              ELSE IF resp.status_code >= 400 /\ resp.status_code <= 599
              THEN "HTTPError"
              ELSE "none"
        /\ resp.status_code \in {410, 405} => error.type # "none"

\* C14 witness: a 410 from a URL without the legacy host string fell through to
\* the generic failure.
C14_Witness ==
    /\ pc = "check_return"
    /\ resp.status_code = 410
    /\ resp.url = URL_PYPI
    /\ error.type = "HTTPError"

\* C16: on the generic failure a non-empty body is printed under verbose, and
\* otherwise one hint is printed; an empty body prints nothing; the HTTPError is
\* raised in all three cases. The 410 and 405 errors print nothing.
C16_FailureOutput ==
    pc = "check_return" =>
        /\ error.type = "HTTPError" =>
              /\ error.status = resp.status_code
              /\ stdout =
                    IF resp.text = EMPTY THEN <<>>
                    ELSE IF verbose
                    THEN << [line |-> "Content received from server", arg |-> resp.text] >>
                    ELSE << [line |-> "NOTE: Try --verbose", arg |-> EMPTY] >>
        /\ error.type # "HTTPError" => stdout = <<>>
        /\ (raise_for_status(resp) /\ resp.status_code \notin {410, 405}) =>
              error.type = "HTTPError"

\* C16 witness: a 500 with a body, without verbose, printed the hint and raised.
C16_Witness ==
    /\ pc = "check_return"
    /\ resp.status_code = 500
    /\ resp.text = BODY_TEXT
    /\ ~verbose
    /\ error.type = "HTTPError"
    /\ Len(stdout) = 1
    /\ stdout[1].line = "NOTE: Try --verbose"

\* positions in events of the calls of one operation
EventsOf(op) ==
    {e \in 1..Len(events) : events[e].op = op}

\* positions in events of the calls of one operation for package k
EventsFor(op, k) ==
    {e \in EventsOf(op) : events[e].idx = k}

UploadedPaths ==
    [k \in 1..Len(uploaded_packages) |-> uploaded_packages[k].filename]

\* C11 (state part): release_urls is called at most once, only after the loop went
\* through all of uploads with every package skipped or accepted, with the
\* accumulated packages, and only close() follows it; once an error is raised the
\* last call made is the upload that caused it and the accumulator is as it was.
C11_ReportOnlyAfterFullLoop ==
    /\ Cardinality(EventsOf("release_urls")) <= 1
    /\ EventsOf("release_urls") # {} <=> pc \in {"close", "done"}
    /\ \A e \in EventsOf("release_urls") :
          /\ error = NoError
          /\ i = Len(uploads) + 1
          /\ Len(attempts) = Len(uploads)
          /\ \A k \in 1..Len(attempts) : attempts[k].resolved \in {"skip", "success"}
          /\ events[e].count = Len(uploaded_packages)
          /\ UploadedPaths = AcceptedPaths(Len(uploads))
          /\ \A q \in (e + 1)..Len(events) : events[q].op = "close"
    /\ pc = "raised" <=> error # NoError
    /\ error # NoError =>
          /\ events[Len(events)] = Event("upload", i, uploads[i])
          /\ UploadedPaths = AcceptedPaths(i - 1)

\* C11 (step part): no step is taken with an error raised, and no step removes a
\* package from the accumulator.
C11_NoStepAfterError ==
    /\ error = NoError
    /\ Len(uploaded_packages') >= Len(uploaded_packages)
    /\ SubSeq(uploaded_packages', 1, Len(uploaded_packages)) = uploaded_packages

\* C11: a fatal outcome aborts the batch at once: no query, no upload and no
\* release_urls call follows it and the accumulated packages stay; release_urls
\* is called once, after the whole of uploads was processed without abort.
C11_AbortIsImmediate ==
    [](C11_ReportOnlyAfterFullLoop) /\ [][C11_NoStepAfterError]_vars

\* C11 witness: the first package was accepted and the second failed with a 500.
C11_Witness ==
    /\ pc = "raised"
    /\ error.type = "HTTPError"
    /\ error.status = 500
    /\ i = 2
    /\ Len(uploaded_packages) = 1
    /\ EventsOf("release_urls") = {}

IsAborted(k) ==
    attempts[k].resolved = "abort"

\* C12: no package gets more than one upload request or more than one
\* package_is_uploaded query, at most one attempt of a batch is fatal, and the
\* batch has raised exactly when one is.
C12_NoRetries ==
    /\ \A k \in 1..Len(attempts) :
          /\ Cardinality(EventsFor("upload", k)) <= 1
          /\ Cardinality(EventsFor("package_is_uploaded", k)) <= 1
          /\ attempts[k].sent <=> EventsFor("upload", k) # {}
    /\ \A e \in EventsOf("upload") \cup EventsOf("package_is_uploaded") :
          events[e].idx \in 1..Len(attempts)
    /\ Cardinality(Where(IsAborted)) <= 1
    /\ Where(IsAborted) # {} <=> error # NoError
    /\ Where(IsAborted) # {} => (pc = "raised" /\ Where(IsAborted) = {Len(attempts)})

\* C12 witness: two packages were each queried once and uploaded once, and the
\* second upload was fatal.
C12_Witness ==
    /\ pc = "raised"
    /\ Len(attempts) = 2
    /\ Cardinality(EventsOf("upload")) = 2
    /\ Cardinality(EventsOf("package_is_uploaded")) = 2

\* signature resolution has run for package k
PastSignature(k) ==
    attempts[k].sent \/ (k = i /\ pc = "send")

\* the input holds a signature file for the path
HasSignatureFile(path) ==
    \E n \in 1..Len(dists) :
        /\ EndsWith(dists[n], ASC)
        /\ Basename(dists[n]) = Basename(path) \o ASC

\* the signature a package of this path carries after signature resolution
SignatureAsResolved(pkg) ==
    IF HasSignatureFile(pkg.filename)
    THEN /\ Cardinality(pkg.gpg_signature) = 1
         /\ \A g \in pkg.gpg_signature :
               /\ g.by = "file"
               /\ g.name = Basename(pkg.filename) \o ASC
               /\ g.path \in Range(dists)
               /\ EndsWith(g.path, ASC)
               /\ Basename(g.path) = g.name
    ELSE IF sign
    THEN /\ Cardinality(pkg.gpg_signature) = 1
         /\ \A g \in pkg.gpg_signature : g.by = "gpg"
    ELSE pkg.gpg_signature = {}

\* C13: a package that reached signature resolution has the pre-supplied
\* signature file attached and was not signed when its signed basename is a key
\* of the signature map, whatever the sign option is; otherwise it was signed
\* exactly once when the sign option is on; otherwise it is unsigned.
C13_SignatureResolution ==
    /\ \A k \in 1..Len(attempts) :
          PastSignature(k) =>
             IF HasSignatureFile(uploads[k])
             THEN /\ Cardinality(EventsFor("add_gpg_signature", k)) = 1
                  /\ EventsFor("sign", k) = {}
             ELSE IF sign
             THEN /\ Cardinality(EventsFor("sign", k)) = 1
                  /\ EventsFor("add_gpg_signature", k) = {}
             ELSE /\ EventsFor("sign", k) = {}
                  /\ EventsFor("add_gpg_signature", k) = {}
    /\ (i <= Len(attempts) /\ PastSignature(i)) => SignatureAsResolved(package)
    /\ \A k \in 1..Len(uploaded_packages) : SignatureAsResolved(uploaded_packages[k])

\* C13 witness: with the sign option on, a package with a pre-supplied signature
\* file was sent with that file attached and without being signed.
C13_Witness ==
    /\ sign
    /\ dists = <<PATH_P, PATH_D_P_ASC>>
    /\ Len(attempts) = 1
    /\ attempts[1].sent
    /\ package.gpg_signature =
          {[name |-> PATH_P_ASC, path |-> PATH_D_P_ASC, by |-> "file"]}
    /\ EventsOf("sign") = {}

\* package k was skipped, by the pre-check or on its response, and the loop has
\* left it
WasSkipped(k) ==
    k < i /\ (attempts[k].pre = "yes" \/ attempts[k].skip)

\* the skip lines of the skipped packages among the first n, in order
RECURSIVE SkipLinesFor(_)
SkipLinesFor(n) ==
    IF n = 0 THEN <<>>
    ELSE IF WasSkipped(n)
    THEN Append(SkipLinesFor(n - 1), [line |-> "Skipping", arg |-> Basename(uploads[n])])
    ELSE SkipLinesFor(n - 1)

IsSkipLine(l) ==
    l.line = "Skipping"

\* C15 (state part): the skip lines printed are, in order, one line with the
\* basename of each skipped package; a skipped package is never the one an error
\* was raised for, and the report is reached only past the last package.
C15_OneLinePerSkip ==
    /\ SelectSeq(stdout, IsSkipLine) = SkipLinesFor(Len(attempts))
    /\ pc = "raised" =>
          /\ attempts[i].pre # "yes"
          /\ attempts[i].redirect \/ ~attempts[i].skip
    /\ pc \in {"report", "close", "done"} =>
          (Len(attempts) = Len(uploads) /\ i = Len(uploads) + 1)

\* C15 (step part): the step that skips a package raises nothing, prints its skip
\* line and returns to the head of the loop, and the head of the loop takes the
\* next package of uploads, or goes to the report when there is none.
C15_SkipThenNext ==
    /\ (i' = i + 1 /\ (attempts'[i].pre = "yes" \/ attempts'[i].skip)) =>
          /\ pc' = "for"
          /\ error' = NoError
          /\ stdout' = Append(stdout, [line |-> "Skipping", arg |-> Basename(uploads[i])])
          /\ uploaded_packages' = uploaded_packages
    /\ pc = "for" =>
          IF i <= Len(uploads)
          THEN pc' = "precheck" /\ package'.filename = uploads[i]
          ELSE pc' = "report"

\* C15: a skip suppresses only its own package: no error is raised for it, one
\* skip line with its basename is printed, and the loop goes on with the next
\* package, or with the report after the last one.
C15_SkipIsLocal ==
    [](C15_OneLinePerSkip) /\ [][C15_SkipThenNext]_vars

\* C15 witness: the first package was skipped on its response, the second by the
\* pre-check, and the batch is done.
C15_Witness ==
    /\ pc = "done"
    /\ Len(attempts) = 2
    /\ attempts[1].sent /\ attempts[1].skip
    /\ attempts[2].pre = "yes"
    /\ Cardinality(SkipLines) = 2
    /\ uploaded_packages = <<>>

\* C17: when no path of the input is left after the ".asc" paths are taken out,
\* no error is raised and no package_is_uploaded query, upload request or
\* signature step is made.
C17_EmptyUploads ==
    NonAsc(dists) = <<>> =>
        /\ error = NoError
        /\ pc \in {"start", "for", "report", "close", "done"}
        /\ attempts = <<>>
        /\ EventsOf("package_is_uploaded") = {}
        /\ EventsOf("upload") = {}
        /\ EventsOf("sign") = {}
        /\ EventsOf("add_gpg_signature") = {}

\* C17 witness: a batch of signature files only is done.
C17_Witness ==
    /\ pc = "done"
    /\ dists = <<PATH_P_ASC, PATH_D_P_ASC>>
    /\ skip_existing
    /\ EventsOf("upload") = {}

SignatureEvents(k) ==
    EventsFor("add_gpg_signature", k) \cup EventsFor("sign", k)

\* C18: a package gets a signature attached at most once, before its upload
\* request; a package skipped by the pre-check gets none and is not signed.
C18_SignatureOnceBeforeUpload ==
    /\ \A k \in 1..Len(attempts) :
          /\ Cardinality(SignatureEvents(k)) <= 1
          /\ \A g \in SignatureEvents(k) :
                /\ \A u \in EventsFor("upload", k) : g < u
                /\ \A q \in EventsFor("package_is_uploaded", k) : q < g
          /\ attempts[k].pre = "yes" => SignatureEvents(k) = {}
          /\ (attempts[k].sent /\ (sign \/ HasSignatureFile(uploads[k]))) =>
                SignatureEvents(k) # {}
    /\ (i <= Len(attempts) /\ pc # "for") =>
          (package.gpg_signature # {} <=> SignatureEvents(i) # {})

\* C18 witness: with signing on, the first package was skipped by the pre-check
\* unsigned and the second was signed and sent.
C18_Witness ==
    /\ skip_existing
    /\ sign
    /\ Len(attempts) = 2
    /\ attempts[1].pre = "yes"
    /\ attempts[2].sent
    /\ SignatureEvents(1) = {}
    /\ Cardinality(SignatureEvents(2)) = 1

\* C19: without skip_existing package_is_uploaded is never called, nothing is
\* skipped, and a finished attempt whose response was no redirect and had a 4xx
\* or 5xx status has raised a fatal error.
C19_NoSkipWithoutFlag ==
    ~skip_existing =>
        /\ EventsOf("package_is_uploaded") = {}
        /\ SkipLines = {}
        /\ \A k \in 1..Len(attempts) : attempts[k].pre = "notasked" /\ ~attempts[k].skip
        /\ ( /\ EventsOf("upload") # {}
             /\ pc \notin {"redirect", "skip", "check"}
             /\ ~resp.is_redirect
             /\ resp.status_code >= 400 /\ resp.status_code <= 599 ) =>
               /\ pc = "raised"
               /\ error.type \in {"HTTPError", "UploadToDeprecatedPyPIDetected",
                                  "InvalidPyPIUploadURL"}
               /\ Len(uploaded_packages) < Cardinality(EventsOf("upload"))

\* C19 witness: without skip_existing a 400 with the "File already exists" reason
\* raised the HTTP error.
C19_Witness ==
    /\ ~skip_existing
    /\ pc = "raised"
    /\ resp.status_code = 400
    /\ resp.reason = MSG_400_WAREHOUSE
    /\ error.type = "HTTPError"

(* ------------------------------ termination --------------------------- *)

\* upload() is one sequential run: a step that can be taken is taken
FairSpec ==
    Spec /\ WF_vars(Next)

\* C20 (state part): no package has more than one upload request; a batch that is
\* done went through all of uploads and reported, one that raised holds the error.
C20_EndStates ==
    /\ \A k \in 1..Len(attempts) : Cardinality(EventsFor("upload", k)) <= 1
    /\ Cardinality(EventsOf("upload")) <= Len(uploads)
    /\ pc = "done" =>
          /\ i = Len(uploads) + 1
          /\ Cardinality(EventsOf("release_urls")) = 1
          /\ error = NoError
    /\ pc = "raised" => (error # NoError /\ i <= Len(uploads))

\* C20 (step part): the loop never goes back to an earlier package
C20_NeverBack ==
    i' >= i

\* C20: every batch ends, done or raised, after at most one upload request for
\* each package of uploads, and never returns to an earlier package.
C20_Terminates ==
    /\ <>(pc \in {"done", "raised"})
    /\ [](C20_EndStates)
    /\ [][C20_NeverBack]_vars

\* C20 witness: a batch of two packages is done.
C20_Witness ==
    /\ pc = "done"
    /\ Len(attempts) = 2
    /\ Cardinality(EventsOf("upload")) = 2

====
